---- MODULE Spec2Model ----
(***************************************************************************)
(* VisuaLoom web client: the IndexingPanel poller, the folder browsers     *)
(* (pages/Folder and components/FolderList), the search panels (Home and   *)
(* Indexed) with their result labels and the upload input, the derived     *)
(* folder index status, FolderList's folder lists and indexing handlers,   *)
(* the FileExplorer with its URL parameters, and the recents list of the   *)
(* FileExplorerAdvanced.                                                   *)
(*                                                                         *)
(* Every component is a React function component: its state is the set of  *)
(* useState cells, its operations are the event handlers and the           *)
(* continuations of the promises they await.  A call to the backend is a   *)
(* message in flight: the handler's step issues it, and a later step       *)
(* (resolved or rejected) runs the code after the await.  Committing a     *)
(* state update and running the effect that depends on it are one step.    *)
(***************************************************************************)
EXTENDS Naturals, Sequences, FiniteSets

VARIABLES
    view,           \* which component this behaviour is about
    \* ---- IndexingPanel (components/IndexingPanel/IndexingPanel.tsx)
    jobId,          \* useState<string | null>(null)
    status,         \* useState<string>("Not started")
    progress,       \* useState<number>(0)
    mounted,        \* the component instance is mounted
    timers,         \* live setInterval handles, each named by the jobId its closure holds
    startCalls,     \* startIndexing calls in flight
    statusCalls,    \* getIndexStatus calls in flight, per job id
    nextJob,        \* number of job ids the backend has assigned
    doneSeen,       \* jobs for which a response with done == true was handled
    pollFailed,     \* jobs of which a status call was rejected
    \* ---- pages/Folder/Folder.jsx
    expandedRoot,   \* useState(null)
    rootContents,   \* useState({})
    \* ---- components/FolderList/FolderList.tsx
    expanded,       \* useState<string | null>(null)
    contents,       \* useState<Record<string, FolderContents>>({})
    selectedFolder, \* useState<string | null>(null)
    \* ---- both folder browsers
    browseCalls,    \* browseFolder calls in flight, per path
    lastToggle,     \* the toggles since the last other step: path, how many, and
                    \* the expanded path before each of the last two
    lastBrowse,     \* when the last step completed a browseFolder call: how the
                    \* call ended, for which path, and the cache entry of that
                    \* path before a successful one
    \* ---- search panels: Home and Indexed
    query,          \* useState("")
    results,        \* useState([])
    loading,        \* Home: useState(false)
    searchCalls,    \* searchImages calls in flight
    lastOutcome,    \* how the last completed search call ended, and the results
                    \* shown before it completed
    \* ---- Indexed: the upload input
    uploading,      \* useState(false)
    uploadCalls,    \* uploadImage calls in flight
    lastPick,       \* what the change event of the file input carried, when the
                    \* last step was one
    \* ---- FolderList: the derived index status of a rendered folder row
    indexedFolders, \* useState<FolderInfo[]>([]), as the set of their paths
    renderedPath,   \* the path of the row rendered last
    folderStatus,   \* what getFolderIndexStatus returned for it
    \* ---- FolderList: loading the folder lists and indexing
    availableFolders, \* useState<FolderInfo[]>([]), as the set of their paths
    listLoading,    \* useState(false), the component's `loading` cell
    selectedFiles,  \* useState<Record<string, boolean>>({}), as the set of the
                    \* files mapped to true
    effectRan,      \* the mount effect has run
    loadCalls,      \* loadFolders runs in flight, per awaited call and per list
                    \* of indexed folders already received
    indexCalls,     \* startIndexing calls of indexFolder in flight
    indexFilesCalls, \* indexFiles calls in flight, per set of paths sent
    lastAlert,      \* the dialogs of the last step: the answer it was given to
                    \* window.confirm, and the window.alert it showed: which
                    \* message, and the count it cites
    \* ---- Home and Indexed: one rendered search result
    renderedItem,   \* the result rendered last
    label,          \* the label shown for it
    \* ---- FileExplorerAdvanced (components/FileExplorer/README.md): the cells
    \*      currentPath and recentFolders and the localStorage key
    advPath,        \* useState(searchParams.get("path") || null)
    recentFolders,  \* useState(() => saved ? JSON.parse(saved) : [])
    storedRecent,   \* localStorage["fileExplorerRecent"]: the JSON text, token by token
    advMounted,     \* the effects of the first render have run
    rerunPending,   \* a render with a new addToRecent is committed: the path
                    \* effect has to run again
    advCalls,       \* browseFolder calls of loadFolderContents in flight
    lastVisit,      \* for each folder, when currentPath last became that folder
    clock,          \* how many times currentPath was set to a folder
    \* ---- FileExplorer (unnamed/part_004): the cells below and the URL
    exUrl,          \* the query parameters of the URL: path, search, page
    exPath,         \* currentPath
    exSearch,       \* searchQuery
    exPage,         \* currentPage
    exItems,        \* items: the listing held, and the folder it is of
    exFiltered,     \* filteredItems
    exLoading,      \* loading
    exError,        \* error: none, or which load set it
    exCalls,        \* browseFolder calls of loadFolderContents in flight, per path
    exRootCalls,    \* getRootFolders calls of loadRoots in flight
    exMounted       \* the effects of the first render have run

panelVars == <<jobId, status, progress, mounted, timers, startCalls, statusCalls,
               nextJob, doneSeen, pollFailed>>

browserVars == <<expandedRoot, rootContents, expanded, contents, selectedFolder,
                 browseCalls, lastToggle, lastBrowse>>

uploadVars == <<uploading, uploadCalls, lastPick>>

searchVars == <<query, results, loading, searchCalls, lastOutcome, uploadVars>>

statusVars == <<indexedFolders, renderedPath, folderStatus>>

listVars == <<availableFolders, listLoading, selectedFiles, effectRan, loadCalls,
              indexCalls, indexFilesCalls, lastAlert>>

labelVars == <<renderedItem, label>>

recentVars == <<advPath, recentFolders, storedRecent, advMounted, rerunPending,
                advCalls, lastVisit, clock>>

explorerVars == <<exUrl, exPath, exSearch, exPage, exItems, exFiltered, exLoading,
                  exError, exCalls, exRootCalls, exMounted>>

vars == <<view, panelVars, browserVars, searchVars, statusVars, listVars, labelVars,
          recentVars, explorerVars>>

\* ------------------------------------------------------------------ bounds
MaxJobs == 2
MaxInflight == 2
MaxBrowseInflight == 2
MaxProgress == 2
MaxPaths == 2
MaxVersions == 2
MaxQueryLen == 2
MaxResults == 2
MaxPathLen == 4
MaxIndexed == 2
MaxFiles == 2
MaxLabelValues == 2
MaxFresh == 2
MaxVisits == 3
MaxPage == 2
MaxItems == 2

\* ------------------------------------------------------------ IndexingPanel
NoJob == 0
JobIds == 1..MaxJobs
ProgressValues == 0..MaxProgress

StatusNotStarted == "Not started"
StatusStarted == "Indexing started"
StatusStartError == "Error starting indexing"
StatusDone == "done"

\* {status === "idle" && <Button onClick={handleStartIndexing}>}: the render
\* offers the Start Indexing button in this case only.
StartButtonRendered == status = "idle"

RECURSIVE SumOver(_, _)
SumOver(f, S) ==
    IF S = {} THEN 0
    ELSE LET x == CHOOSE y \in S : TRUE IN f[x] + SumOver(f, S \ {x})

PanelInflight == startCalls + SumOver(statusCalls, JobIds)

PanelInit ==
    /\ jobId = NoJob
    /\ status = StatusNotStarted
    /\ progress = 0
    /\ mounted = TRUE
    /\ timers = {}
    /\ startCalls = 0
    /\ statusCalls = [j \in JobIds |-> 0]
    /\ nextJob = 0
    /\ doneSeen = {}
    /\ pollFailed = {}

\* The poller effect with dependency [jobId]: when the dependency changed, React
\* runs the previous run's cleanup (clearInterval of its handle) and then the
\* effect body, which returns early on a falsy jobId and otherwise sets the
\* interval whose callback closes over the new jobId.
PollerEffectNoCleanup(ts, old, new) ==
    IF new = old THEN ts
    ELSE IF new = NoJob THEN ts ELSE ts \cup {new}

PollerEffect(ts, old, new) ==
    IF new = old THEN ts
    ELSE IF new = NoJob THEN ts \ {old} ELSE (ts \ {old}) \cup {new}

\* clearInterval(interval) in the callback of the interval for job j, on data.done.
TimersAfterDoneKept(ts, j) == ts

TimersAfterDone(ts, j) == ts \ {j}

\* The cleanup of the last effect run, at unmount.
TimersAfterUnmount(ts, j) == ts \ {j}

\* catch branch of handleStartIndexing: setStatus only.
StatusAfterStartFailureKept(st) == st

StatusAfterStartFailure(st) == StatusStartError

\* handleStartIndexing up to its await: the startIndexing request is sent.  The
\* handler is an operation of the component; which render shows the button that
\* calls it (`status === "idle"`, line 48) is not part of it.
handleStartIndexing ==
    /\ view = "IndexingPanel"
    /\ mounted
    /\ nextJob + startCalls < MaxJobs
    /\ PanelInflight < MaxInflight
    /\ startCalls' = startCalls + 1
    /\ UNCHANGED <<view, labelVars, recentVars, explorerVars, listVars, browserVars, searchVars, statusVars, jobId, status, progress, mounted, timers, statusCalls,
                   nextJob, doneSeen, pollFailed>>

\* startIndexing resolved: the backend assigned a new job id; setJobId, setStatus,
\* and the commit runs the poller effect.  State setters of an unmounted
\* component do nothing.
StartResolved ==
    /\ view = "IndexingPanel"
    /\ startCalls > 0
    /\ startCalls' = startCalls - 1
    /\ nextJob' = nextJob + 1
    /\ IF mounted
       THEN /\ jobId' = nextJob + 1
            /\ status' = StatusStarted
            /\ timers' = PollerEffect(timers, jobId, nextJob + 1)
       ELSE UNCHANGED <<jobId, status, timers>>
    /\ UNCHANGED <<view, labelVars, recentVars, explorerVars, listVars, browserVars, searchVars, statusVars, progress, mounted, statusCalls, doneSeen, pollFailed>>

\* startIndexing rejected: the catch branch.
StartRejected ==
    /\ view = "IndexingPanel"
    /\ startCalls > 0
    /\ startCalls' = startCalls - 1
    /\ status' = IF mounted THEN StatusAfterStartFailure(status) ELSE status
    /\ UNCHANGED <<view, labelVars, recentVars, explorerVars, listVars, browserVars, searchVars, statusVars, jobId, progress, mounted, timers, statusCalls, nextJob,
                   doneSeen, pollFailed>>

\* One firing of the interval set for job j: getIndexStatus(j) is sent.  The
\* interval does not wait for the previous response.
Tick(j) ==
    /\ view = "IndexingPanel"
    /\ j \in timers
    /\ PanelInflight < MaxInflight
    /\ statusCalls' = [statusCalls EXCEPT ![j] = @ + 1]
    /\ UNCHANGED <<view, labelVars, recentVars, explorerVars, listVars, browserVars, searchVars, statusVars, jobId, status, progress, mounted, timers, startCalls,
                   nextJob, doneSeen, pollFailed>>

\* getIndexStatus(j) resolved with {progress: p, done: d}: the rest of the callback.
StatusResolved(j, p, d) ==
    /\ view = "IndexingPanel"
    /\ statusCalls[j] > 0
    /\ statusCalls' = [statusCalls EXCEPT ![j] = @ - 1]
    /\ progress' = IF mounted THEN p ELSE progress
    /\ IF d
       THEN /\ status' = IF mounted THEN StatusDone ELSE status
            /\ timers' = TimersAfterDone(timers, j)
            /\ doneSeen' = doneSeen \cup {j}
       ELSE UNCHANGED <<status, timers, doneSeen>>
    /\ UNCHANGED <<view, labelVars, recentVars, explorerVars, listVars, browserVars, searchVars, statusVars, jobId, mounted, startCalls, nextJob, pollFailed>>

\* The timers after a status call of job j failed: the callback has no catch and
\* clears nothing.
TimersStoppedByFailure(ts, j) == ts \ {j}

TimersAfterStatusFailure(ts, j) == ts

\* getIndexStatus(j) rejected: the await throws inside the async callback, which
\* has no try/catch; no state is set and the interval stays.
StatusRejected(j) ==
    /\ view = "IndexingPanel"
    /\ statusCalls[j] > 0
    /\ statusCalls' = [statusCalls EXCEPT ![j] = @ - 1]
    /\ timers' = TimersAfterStatusFailure(timers, j)
    /\ pollFailed' = pollFailed \cup {j}
    /\ UNCHANGED <<view, labelVars, recentVars, explorerVars, listVars, browserVars,
                   searchVars, statusVars, jobId, status, progress, mounted,
                   startCalls, nextJob, doneSeen>>

\* The panel is unmounted: the effect's cleanup runs.
Unmount ==
    /\ view = "IndexingPanel"
    /\ mounted
    /\ mounted' = FALSE
    /\ timers' = TimersAfterUnmount(timers, jobId)
    /\ UNCHANGED <<view, labelVars, recentVars, explorerVars, listVars, browserVars, searchVars, statusVars, jobId, status, progress, startCalls, statusCalls, nextJob,
                   doneSeen, pollFailed>>

\* ----------------------------------------------------------- folder browsers
NoPath == 0
Paths == 1..MaxPaths
Versions == 1..MaxVersions

\* What browseFolder(p) resolves with: the listing of p as the backend has it now.
Listing(p, v) == [path |-> p, ver |-> v]
Absent == [path |-> NoPath, ver |-> 0]

NoToggle == [path |-> NoPath, n |-> 0, prev1 |-> NoPath, prev2 |-> NoPath]

\* The toggle of p recorded: prev1 is the expanded path before this toggle, prev2
\* the one before the toggle preceding it when that one was of p too.
Toggled(e, p) ==
    IF lastToggle.path = p
    THEN [path |-> p, n |-> 2, prev1 |-> e, prev2 |-> lastToggle.prev1]
    ELSE [path |-> p, n |-> 1, prev1 |-> e, prev2 |-> NoPath]

\* The expanded path and the cache of the browser this behaviour is about.
ExpandedPath == IF view = "Folder" THEN expandedRoot ELSE expanded
ContentsByPath == IF view = "Folder" THEN rootContents ELSE contents

NoBrowse == [kind |-> "none", path |-> NoPath, before |-> Absent]

BrowseInflight == SumOver(browseCalls, Paths)

BrowserInit ==
    /\ expandedRoot = NoPath
    /\ rootContents = [p \in Paths |-> Absent]
    /\ expanded = NoPath
    /\ contents = [p \in Paths |-> Absent]
    /\ selectedFolder = NoPath
    /\ browseCalls = [p \in Paths |-> 0]
    /\ lastToggle = NoToggle
    /\ lastBrowse = NoBrowse

\* Folder.toggleRoot: the expanded root after the call.
toggleRootKeepsOpen(e, p) == p

toggleRootExpanded(e, p) == IF e = p THEN NoPath ELSE p

\* Folder.toggleRoot: whether the call browses, given the expanded root and the
\* cache as the handler's closure sees them.
toggleRootBrowses(e, rc, p) == e # p /\ rc[p] = Absent

\* FolderList.toggleFolder: the expanded path after the call.
toggleFolderExpanded(e, p) == IF e = p THEN NoPath ELSE p

\* FolderList.toggleFolder: loadContents(path) runs on every expansion.
toggleFolderBrowses(e, c, p) == e # p

\* FolderList.handleSelectFolder: loadContents(path) runs whatever is cached.
handleSelectBrowsesUncached(c, p) == c[p] = Absent

handleSelectBrowses(c, p) == TRUE

\* The catch branches of loadContents and toggleRoot: console.error only.
ContentsClearedOnBrowseFailure(c, p) == [q \in Paths |-> Absent]

ContentsOnBrowseFailure(c, p) == c

\* Folder.toggleRoot(p) up to its await.
toggleRoot(p) ==
    /\ view = "Folder"
    /\ expandedRoot' = toggleRootExpanded(expandedRoot, p)
    /\ IF toggleRootBrowses(expandedRoot, rootContents, p)
       THEN /\ BrowseInflight < MaxBrowseInflight
            /\ browseCalls' = [browseCalls EXCEPT ![p] = @ + 1]
       ELSE UNCHANGED browseCalls
    /\ lastToggle' = Toggled(expandedRoot, p)
    /\ UNCHANGED <<view, labelVars, recentVars, explorerVars, listVars, panelVars, searchVars, statusVars, rootContents, expanded, contents, selectedFolder>>
    /\ lastBrowse' = NoBrowse

\* FolderList.toggleFolder(p), with loadContents(p) up to its await.
toggleFolder(p) ==
    /\ view = "FolderList"
    /\ expanded' = toggleFolderExpanded(expanded, p)
    /\ IF toggleFolderBrowses(expanded, contents, p)
       THEN /\ BrowseInflight < MaxBrowseInflight
            /\ browseCalls' = [browseCalls EXCEPT ![p] = @ + 1]
       ELSE UNCHANGED browseCalls
    /\ lastToggle' = Toggled(expanded, p)
    /\ UNCHANGED <<view, labelVars, recentVars, explorerVars, listVars, panelVars, searchVars, statusVars, expandedRoot, rootContents, contents, selectedFolder>>
    /\ lastBrowse' = NoBrowse

\* FolderList.handleSelectFolder(p), with loadContents(p) up to its await.
handleSelectFolder(p) ==
    /\ view = "FolderList"
    /\ selectedFolder' = p
    /\ IF handleSelectBrowses(contents, p)
       THEN /\ BrowseInflight < MaxBrowseInflight
            /\ browseCalls' = [browseCalls EXCEPT ![p] = @ + 1]
       ELSE UNCHANGED browseCalls
    /\ lastToggle' = NoToggle
    /\ UNCHANGED <<view, labelVars, recentVars, explorerVars, listVars, panelVars, searchVars, statusVars, expandedRoot, rootContents,
                   expanded, contents>>
    /\ lastBrowse' = NoBrowse

\* The cache after browseFolder(p) resolved with res: the updater
\* (s) => ({...s, [path]: res}) keeps every other entry of the cache it is
\* given and stores res under the path the handler was called with.
ContentsReplacedOnBrowseSuccess(c, p, res) ==
    [q \in Paths |-> IF q = p THEN res ELSE Absent]

ContentsOnBrowseSuccess(c, p, res) == [c EXCEPT ![p] = res]

\* browseFolder(p) resolved: setRootContents((s) => ({...s, [path]: res})) in
\* Folder, setContents((prev) => ({...prev, [path]: res})) in FolderList.
BrowseResolved(p, v) ==
    /\ view \in {"Folder", "FolderList"}
    /\ browseCalls[p] > 0
    /\ browseCalls' = [browseCalls EXCEPT ![p] = @ - 1]
    /\ IF view = "Folder"
       THEN /\ rootContents' = ContentsOnBrowseSuccess(rootContents, p, Listing(p, v))
            /\ UNCHANGED contents
       ELSE /\ contents' = ContentsOnBrowseSuccess(contents, p, Listing(p, v))
            /\ UNCHANGED rootContents
    /\ lastToggle' = NoToggle
    /\ lastBrowse' = [kind |-> "ok", path |-> p, before |-> ContentsByPath[p]]
    /\ UNCHANGED <<view, labelVars, recentVars, explorerVars, listVars, panelVars, searchVars, statusVars, expandedRoot, expanded, selectedFolder>>

\* browseFolder(p) rejected: both catch branches only log.
BrowseRejected(p) ==
    /\ view \in {"Folder", "FolderList"}
    /\ browseCalls[p] > 0
    /\ browseCalls' = [browseCalls EXCEPT ![p] = @ - 1]
    /\ IF view = "Folder"
       THEN /\ rootContents' = ContentsOnBrowseFailure(rootContents, p)
            /\ UNCHANGED contents
       ELSE /\ contents' = ContentsOnBrowseFailure(contents, p)
            /\ UNCHANGED rootContents
    /\ lastToggle' = NoToggle
    /\ lastBrowse' = [kind |-> "failed", path |-> p, before |-> Absent]
    /\ UNCHANGED <<view, labelVars, recentVars, explorerVars, listVars, panelVars, searchVars, statusVars, expandedRoot, expanded, selectedFolder>>


\* -------------------------------------------------------------- search panels
\* Strings are sequences of characters.
StringsOver(chars, n) == UNION {[1..k -> chars] : k \in 0..n}

IsSpace(c) == c = " "

\* String.prototype.trim: the string without its leading and trailing whitespace.
RECURSIVE TrimLeft(_)
TrimLeft(s) == IF s # <<>> /\ IsSpace(Head(s)) THEN TrimLeft(Tail(s)) ELSE s

RECURSIVE TrimRight(_)
TrimRight(s) ==
    IF s # <<>> /\ IsSpace(s[Len(s)]) THEN TrimRight(SubSeq(s, 1, Len(s) - 1)) ELSE s

Trim(s) == TrimRight(TrimLeft(s))

Queries == StringsOver({" ", "a"}, MaxQueryLen)

\* The result lists the backend answers with, and the response bodies: a body
\* may come without a results field.
ResultLists == {[i \in 1..n |-> i] : n \in 0..MaxResults}
SearchBodies == [has : BOOLEAN, results : ResultLists]

NoOutcome == [kind |-> "none", before |-> <<>>]

SearchInit ==
    /\ query = <<>>
    /\ results = <<>>
    /\ loading = FALSE
    /\ searchCalls = 0
    /\ lastOutcome = NoOutcome
    /\ uploading = FALSE
    /\ uploadCalls = 0
    /\ lastPick = "none"

SearchInflight == searchCalls + uploadCalls

\* Home.doSearch: the guard `if (!query.trim()) return setResults([])`.
HomeSearches(q) == Trim(q) # <<>>

\* `res.results || []`
ResultsOnSuccess(old, body) == IF body.has THEN body.results ELSE <<>>

\* the catch branches: setResults([])
ResultsKeptOnFailure(old) == old

ResultsOnFailure(old) == <<>>

\* onChange of the query input.
setQuery(q) ==
    /\ view \in {"Home", "Indexed"}
    /\ query # q
    /\ query' = q
    /\ UNCHANGED <<view, labelVars, recentVars, explorerVars, listVars, panelVars, browserVars, statusVars, uploading, uploadCalls, results, loading,
                   searchCalls, lastOutcome>>
    /\ lastPick' = "none"

\* Home.doSearch up to its await.
HomeDoSearch ==
    /\ view = "Home"
    /\ IF HomeSearches(query)
       THEN /\ SearchInflight < MaxInflight
            /\ loading' = TRUE
            /\ searchCalls' = searchCalls + 1
            /\ UNCHANGED results
       ELSE /\ results' = <<>>
            /\ UNCHANGED <<loading, searchCalls>>
    /\ UNCHANGED <<view, labelVars, recentVars, explorerVars, listVars, panelVars, browserVars, statusVars, uploading, uploadCalls, query, lastOutcome>>
    /\ lastPick' = "none"

\* Indexed.doSearch up to its await: it has no guard on the query.
IndexedDoSearch ==
    /\ view = "Indexed"
    /\ SearchInflight < MaxInflight
    /\ searchCalls' = searchCalls + 1
    /\ UNCHANGED <<view, labelVars, recentVars, explorerVars, listVars, panelVars, browserVars, statusVars, uploading, uploadCalls, query, results, loading,
                   lastOutcome>>
    /\ lastPick' = "none"

\* searchImages resolved with body: the rest of the try block and, in Home, the
\* setLoading(false) after it.
SearchResolved(body) ==
    /\ view \in {"Home", "Indexed"}
    /\ searchCalls > 0
    /\ searchCalls' = searchCalls - 1
    /\ results' = ResultsOnSuccess(results, body)
    /\ loading' = IF view = "Home" THEN FALSE ELSE loading
    /\ lastOutcome' = [kind |-> "ok", before |-> results]
    /\ UNCHANGED <<view, labelVars, recentVars, explorerVars, listVars, panelVars, browserVars, statusVars, uploading, uploadCalls, query>>
    /\ lastPick' = "none"

\* searchImages rejected: the catch branch and, in Home, setLoading(false).
SearchRejected ==
    /\ view \in {"Home", "Indexed"}
    /\ searchCalls > 0
    /\ searchCalls' = searchCalls - 1
    /\ results' = ResultsOnFailure(results)
    /\ loading' = IF view = "Home" THEN FALSE ELSE loading
    /\ lastOutcome' = [kind |-> "failed", before |-> results]
    /\ UNCHANGED <<view, labelVars, recentVars, explorerVars, listVars, panelVars, browserVars, statusVars, uploading, uploadCalls, query>>
    /\ lastPick' = "none"

\* Indexed.handleFile goes on to the upload when the change event carries a file.
handleFileUnchecked(hasFile) == TRUE

handleFileProceeds(hasFile) == hasFile

\* Indexed.handleFile up to its await; hasFile tells whether e.target.files[0]
\* is a file.
handleFile(hasFile) ==
    /\ view = "Indexed"
    /\ lastPick' = IF hasFile THEN "file" ELSE "no-file"
    /\ IF handleFileProceeds(hasFile)
       THEN /\ SearchInflight < MaxInflight
            /\ uploading' = TRUE
            /\ uploadCalls' = uploadCalls + 1
       ELSE UNCHANGED <<uploading, uploadCalls>>
    /\ UNCHANGED <<view, labelVars, recentVars, explorerVars, listVars, panelVars, browserVars, statusVars, query,
                   results, loading, searchCalls, lastOutcome>>

\* uploadImage resolved: the message, doSearch() up to its await, and
\* setUploading(false).
UploadResolved ==
    /\ view = "Indexed"
    /\ uploadCalls > 0
    /\ uploadCalls' = uploadCalls - 1
    /\ searchCalls' = searchCalls + 1
    /\ uploading' = FALSE
    /\ UNCHANGED <<view, labelVars, recentVars, explorerVars, listVars, panelVars, browserVars, statusVars, query,
                   results, loading, lastOutcome>>
    /\ lastPick' = "none"

\* uploadImage rejected: the catch branch and setUploading(false).
UploadRejected ==
    /\ view = "Indexed"
    /\ uploadCalls > 0
    /\ uploadCalls' = uploadCalls - 1
    /\ uploading' = FALSE
    /\ UNCHANGED <<view, labelVars, recentVars, explorerVars, listVars, panelVars, browserVars, statusVars, query,
                   results, loading, searchCalls, lastOutcome>>
    /\ lastPick' = "none"

\* ------------------------------------------------------- folder index status
PathChars == {"/", "a"}

\* Absolute paths: non-empty strings that begin with "/".
AbsPaths == {s \in StringsOver(PathChars, MaxPathLen) : s # <<>> /\ s[1] = "/"}

\* String.prototype.startsWith and endsWith
StartsWith(s, pre) == Len(pre) <= Len(s) /\ SubSeq(s, 1, Len(pre)) = pre

EndsWith(s, suf) ==
    Len(suf) <= Len(s) /\ SubSeq(s, Len(s) - Len(suf) + 1, Len(s)) = suf

\* FolderList.getFolderIndexStatus over the paths of indexedFolders.
getFolderIndexStatusNoBoundary(path, folders) ==
    IF folders = {} THEN "none"
    ELSE IF \E f \in folders : f = path THEN "indexed"
    ELSE IF \E f \in folders : StartsWith(f, path) THEN "partial"
    ELSE "none"

getFolderIndexStatus(path, folders) ==
    IF folders = {} THEN "none"
    ELSE IF \E f \in folders : f = path THEN "indexed"
    ELSE IF \E f \in folders :
                StartsWith(f, IF EndsWith(path, <<"/">>) THEN path ELSE path \o <<"/">>)
         THEN "partial"
    ELSE "none"

IndexedSets == {{}} \cup {{f[i] : i \in 1..MaxIndexed} : f \in [1..MaxIndexed -> AbsPaths]}

StatusIdle ==
    /\ indexedFolders = {}
    /\ renderedPath = <<>>
    /\ folderStatus = "none"

StatusInit ==
    /\ indexedFolders \in IndexedSets
    /\ renderedPath = <<>>
    /\ folderStatus = "none"

\* The render of one folder row: `const status = getFolderIndexStatus(root.path)`.
RenderFolderRow(p) ==
    /\ view = "FolderStatus"
    /\ renderedPath' = p
    /\ folderStatus' = getFolderIndexStatus(p, indexedFolders)
    /\ UNCHANGED <<view, labelVars, recentVars, explorerVars, listVars, panelVars, browserVars, searchVars, indexedFolders>>

\* ------------------------------------------ FolderList: loading and indexing
\* The handlers below read and write the cells indexedFolders, availableFolders,
\* loading and selectedFiles only; the view "FolderListIndexing" is the
\* FolderList component seen through these cells.
Files == 1..MaxFiles

\* What the backend lists when asked for the indexed folders or for the roots:
\* nothing, or one folder.
FolderAnswers == {{}, {<<"/", "a">>}}

\* A run of loadFolders is suspended at its first await (getIndexedFolders) or
\* at its second (getRootFolders), where it holds the indexed list it received.
LoadAtIndexed == [stage |-> "indexed", got |-> {}]

LoadAtRoots(a) == [stage |-> "roots", got |-> a]

LoadStages == {LoadAtIndexed} \cup {LoadAtRoots(a) : a \in FolderAnswers}

\* The paths one indexFiles request carries.
PathSets == SUBSET Files

\* A count in a response body or in a message: <<n>>, or <<>> where the field
\* is missing (undefined).
Counts == {<<n>> : n \in 0..MaxFiles}

Undefined == <<>>

\* The body the backend answers POST /index/files with: the count is in the
\* field indexed or in the field indexed_count.
IndexFilesBodies ==
    {[indexed |-> c, indexed_count |-> Undefined] : c \in Counts}
        \cup {[indexed |-> Undefined, indexed_count |-> c] : c \in Counts}

NoAlert == [kind |-> "none", cited |-> Undefined, confirm |-> "none"]

Alert(k) == [kind |-> k, cited |-> Undefined, confirm |-> "none"]

\* window.confirm answered in the last step, and no alert shown.
ConfirmAnswered(ok) ==
    [kind |-> "none", cited |-> Undefined,
     confirm |-> IF ok THEN "accepted" ELSE "declined"]

\* alert(`Indexed ${res.indexed} file(s)`)
IndexedAlert(res) == [kind |-> "indexed", cited |-> res.indexed, confirm |-> "none"]

ListInflight ==
    SumOver(loadCalls, LoadStages) + indexCalls + SumOver(indexFilesCalls, PathSets)

ListInit ==
    /\ availableFolders = {}
    /\ listLoading = FALSE
    /\ selectedFiles = {}
    /\ effectRan = FALSE
    /\ loadCalls = [st \in LoadStages |-> 0]
    /\ indexCalls = 0
    /\ indexFilesCalls = [ps \in PathSets |-> 0]
    /\ lastAlert = NoAlert

\* indexSelectedFiles goes on to the request when some file is selected.
indexSelectedFilesProceeds(paths) == paths # {}

\* loadFolders up to its first await: setLoading(true), getIndexedFolders().
loadFolders ==
    /\ listLoading' = TRUE
    /\ loadCalls' = [loadCalls EXCEPT ![LoadAtIndexed] = @ + 1]

\* useEffect(() => { loadFolders(); }, []): runs after the first render, before
\* any event handler can.
MountEffect ==
    /\ view = "FolderListIndexing"
    /\ ~effectRan
    /\ effectRan' = TRUE
    /\ loadFolders
    /\ UNCHANGED <<view, labelVars, recentVars, explorerVars, panelVars, browserVars, searchVars, statusVars,
                   availableFolders, selectedFiles, indexCalls, indexFilesCalls>>
    /\ lastAlert' = NoAlert

\* getIndexedFolders resolved with a: loadFolders goes on to getRootFolders().
IndexedFoldersResolved(a) ==
    /\ view = "FolderListIndexing"
    /\ loadCalls[LoadAtIndexed] > 0
    /\ loadCalls' = [loadCalls EXCEPT ![LoadAtIndexed] = @ - 1,
                                      ![LoadAtRoots(a)] = @ + 1]
    /\ UNCHANGED <<view, labelVars, recentVars, explorerVars, panelVars, browserVars, searchVars, statusVars,
                   availableFolders, listLoading, selectedFiles, effectRan,
                   indexCalls, indexFilesCalls>>
    /\ lastAlert' = NoAlert

\* getRootFolders resolved with r: both lists are set, then setLoading(false).
RootFoldersResolved(st, r) ==
    /\ view = "FolderListIndexing"
    /\ st.stage = "roots"
    /\ loadCalls[st] > 0
    /\ loadCalls' = [loadCalls EXCEPT ![st] = @ - 1]
    /\ indexedFolders' = st.got
    /\ availableFolders' = r
    /\ listLoading' = FALSE
    /\ UNCHANGED <<view, labelVars, recentVars, explorerVars, panelVars, browserVars, searchVars, renderedPath,
                   folderStatus, selectedFiles, effectRan, indexCalls,
                   indexFilesCalls>>
    /\ lastAlert' = NoAlert

\* Either call of loadFolders rejected: the catch block logs the error and sets
\* neither list, then setLoading(false).
LoadFoldersRejected(st) ==
    /\ view = "FolderListIndexing"
    /\ loadCalls[st] > 0
    /\ loadCalls' = [loadCalls EXCEPT ![st] = @ - 1]
    /\ listLoading' = FALSE
    /\ UNCHANGED <<view, labelVars, recentVars, explorerVars, panelVars, browserVars, searchVars, statusVars,
                   availableFolders, selectedFiles, effectRan, indexCalls,
                   indexFilesCalls>>
    /\ lastAlert' = NoAlert

\* The updater of toggleFileSelect, (prev) => ({...prev, [filePath]:
\* !prev[filePath]}), over the set of the paths whose value is true.
toggleFileSelectAdds(prev, f) == prev \cup {f}

toggleFileSelectUpdated(prev, f) == IF f \in prev THEN prev \ {f} ELSE prev \cup {f}

toggleFileSelect(f) ==
    /\ view = "FolderListIndexing"
    /\ effectRan
    /\ selectedFiles' = toggleFileSelectUpdated(selectedFiles, f)
    /\ UNCHANGED <<view, labelVars, recentVars, explorerVars, panelVars, browserVars, searchVars, statusVars,
                   availableFolders, listLoading, effectRan, loadCalls,
                   indexCalls, indexFilesCalls>>
    /\ lastAlert' = NoAlert

\* The Clear button: setSelectedFiles({}).
clearSelectedFiles ==
    /\ view = "FolderListIndexing"
    /\ effectRan
    /\ selectedFiles' = {}
    /\ UNCHANGED <<view, labelVars, recentVars, explorerVars, panelVars, browserVars, searchVars, statusVars,
                   availableFolders, listLoading, effectRan, loadCalls,
                   indexCalls, indexFilesCalls>>
    /\ lastAlert' = NoAlert

\* The startIndexing calls in flight once one of them has failed: the catch
\* block of indexFolder shows a message and calls nothing.
IndexCallsRetried(n) == n

IndexCallsAfterFailure(n) == n - 1

\* The startIndexing calls in flight after indexFolder asked for confirmation:
\* if (!ok) return; comes before the request.
IndexCallsUnconfirmed(n, ok) == n + 1

IndexCallsOnConfirm(n, ok) == IF ok THEN n + 1 ELSE n

\* indexFolder up to its await; confirmed is the answer to window.confirm.
indexFolder(confirmed) ==
    /\ view = "FolderListIndexing"
    /\ effectRan
    /\ confirmed => ListInflight < MaxInflight
    /\ indexCalls' = IndexCallsOnConfirm(indexCalls, confirmed)
    /\ UNCHANGED <<view, labelVars, recentVars, explorerVars, panelVars, browserVars, searchVars, statusVars,
                   availableFolders, listLoading, selectedFiles, effectRan,
                   loadCalls, indexFilesCalls>>
    /\ lastAlert' = ConfirmAnswered(confirmed)

IndexFolderResolved ==
    /\ view = "FolderListIndexing"
    /\ indexCalls > 0
    /\ indexCalls' = indexCalls - 1
    /\ lastAlert' = Alert("indexing-started")
    /\ loadFolders
    /\ UNCHANGED <<view, labelVars, recentVars, explorerVars, panelVars, browserVars, searchVars, statusVars,
                   availableFolders, selectedFiles, effectRan, indexFilesCalls>>

IndexFolderRejected ==
    /\ view = "FolderListIndexing"
    /\ indexCalls > 0
    /\ indexCalls' = IndexCallsAfterFailure(indexCalls)
    /\ lastAlert' = Alert("indexing-failed")
    /\ UNCHANGED <<view, labelVars, recentVars, explorerVars, panelVars, browserVars, searchVars, statusVars,
                   availableFolders, listLoading, selectedFiles, effectRan,
                   loadCalls, indexFilesCalls>>

\* indexSelectedFiles up to its await.
indexSelectedFiles(confirmed) ==
    /\ view = "FolderListIndexing"
    /\ effectRan
    /\ IF ~indexSelectedFilesProceeds(selectedFiles)
       THEN /\ lastAlert' = Alert("no-files-selected")
            /\ UNCHANGED indexFilesCalls
       ELSE IF confirmed
       THEN /\ ListInflight < MaxInflight
            /\ indexFilesCalls' = [indexFilesCalls EXCEPT ![selectedFiles] = @ + 1]
            /\ lastAlert' = ConfirmAnswered(TRUE)
       ELSE /\ lastAlert' = ConfirmAnswered(FALSE)
            /\ UNCHANGED indexFilesCalls
    /\ UNCHANGED <<view, labelVars, recentVars, explorerVars, panelVars, browserVars, searchVars, statusVars,
                   availableFolders, listLoading, selectedFiles, effectRan,
                   loadCalls, indexCalls>>

\* indexFiles resolved with the body res: the message, setSelectedFiles({}),
\* loadFolders().
IndexFilesResolved(ps, res) ==
    /\ view = "FolderListIndexing"
    /\ indexFilesCalls[ps] > 0
    /\ indexFilesCalls' = [indexFilesCalls EXCEPT ![ps] = @ - 1]
    /\ lastAlert' = IndexedAlert(res)
    /\ selectedFiles' = {}
    /\ loadFolders
    /\ UNCHANGED <<view, labelVars, recentVars, explorerVars, panelVars, browserVars, searchVars, statusVars,
                   availableFolders, effectRan, indexCalls>>

IndexFilesRejected(ps) ==
    /\ view = "FolderListIndexing"
    /\ indexFilesCalls[ps] > 0
    /\ indexFilesCalls' = [indexFilesCalls EXCEPT ![ps] = @ - 1]
    /\ lastAlert' = Alert("index-files-failed")
    /\ UNCHANGED <<view, labelVars, recentVars, explorerVars, panelVars, browserVars, searchVars, statusVars,
                   availableFolders, listLoading, selectedFiles, effectRan,
                   loadCalls, indexCalls>>

\* ------------------------------------------------- labels of search results
\* A field of a result: <<>> where it is empty or missing, else one of a few
\* values, tagged with the field so that no two fields hold the same text.
FieldValues(tag) == {<<>>} \cup {<<tag, n>> : n \in 1..MaxLabelValues}

ResultItems ==
    [title : FieldValues("title"), name : FieldValues("name"),
     path : FieldValues("path"), id : FieldValues("id")]

NoItem == [title |-> <<>>, name |-> <<>>, path |-> <<>>, id |-> <<>>]

\* JavaScript a || b on strings: a unless it is empty (or missing).
OrElse(a, b) == IF a # <<>> THEN a ELSE b

\* Home: {item.title || item.name || item.path}
HomeLabel(item) == OrElse(item.title, OrElse(item.name, item.path))

\* Indexed: {r.title || r.path || r.name || r.id}
IndexedLabel(r) == OrElse(r.title, OrElse(r.path, OrElse(r.name, r.id)))

LabelInit ==
    /\ renderedItem = NoItem
    /\ label = <<>>

\* The render of one result in the Home grid.
RenderHomeResult(item) ==
    /\ view = "Home"
    /\ renderedItem' = item
    /\ label' = HomeLabel(item)
    /\ UNCHANGED <<view, panelVars, browserVars, searchVars, statusVars, listVars,
                   recentVars, explorerVars>>

\* The render of one result in the Indexed list.
RenderIndexedResult(r) ==
    /\ view = "Indexed"
    /\ renderedItem' = r
    /\ label' = IndexedLabel(r)
    /\ UNCHANGED <<view, panelVars, browserVars, searchVars, statusVars, listVars,
                   recentVars, explorerVars>>

\* ------------------------------------------- FileExplorerAdvanced: recents
\* The view "FileExplorerAdvanced" is the component seen through currentPath,
\* recentFolders and the localStorage key "fileExplorerRecent".  Of the other
\* calls of its path effect, the browseFolder call is kept as a call in flight;
\* the cells they write (items, currentPage, the URL) are not part of this view.
RecentCap == 10

NoFolder == 0

\* Folders are numbered: an earlier session may have left up to RecentCap of
\* them in localStorage, MaxFresh more were never visited.
Folders == 1..(RecentCap + MaxFresh)

\* The folders the user navigates to: the first and the last of a full list of
\* an earlier session, and the fresh ones.
NavTargets == {1, RecentCap} \cup ((RecentCap + 1)..(RecentCap + MaxFresh))

\* JSON.stringify of an array of strings, as a sequence of tokens.
JsonOpen == [tok |-> "[", val |-> NoFolder]

JsonClose == [tok |-> "]", val |-> NoFolder]

JsonComma == [tok |-> ",", val |-> NoFolder]

JsonString(f) == [tok |-> "string", val |-> f]

Stringify(list) ==
    <<JsonOpen>>
        \o [i \in 1..(IF list = <<>> THEN 0 ELSE 2 * Len(list) - 1) |->
               IF i % 2 = 1 THEN JsonString(list[(i + 1) \div 2]) ELSE JsonComma]
        \o <<JsonClose>>

\* JSON.parse of such a text: the strings between the brackets, in order.
Parse(text) ==
    LET strings == SelectSeq(text, LAMBDA t : t.tok = "string")
    IN  [i \in 1..Len(strings) |-> strings[i].val]

\* localStorage.getItem of a key that was never set
NoStored == <<>>

\* `saved ? JSON.parse(saved) : []`
LoadRecent(saved) == IF saved = NoStored THEN <<>> ELSE Parse(saved)

\* What an earlier session may have left under the key: nothing, or a list of
\* RecentCap - 1 or of RecentCap folders.
StoredValues ==
    {NoStored} \cup {Stringify([i \in 1..n |-> i]) : n \in {RecentCap - 1, RecentCap}}

Without(list, path) == SelectSeq(list, LAMBDA f : f # path)

Take(list, n) == SubSeq(list, 1, IF Len(list) < n THEN Len(list) ELSE n)

\* addToRecent: [path, ...recentFolders.filter((f) => f !== path)].slice(0, 10)
addToRecentUnbounded(path, list) == <<path>> \o Without(list, path)

addToRecentUpdated(path, list) == Take(<<path>> \o Without(list, path), RecentCap)

RecentInit ==
    /\ advPath = NoFolder
    /\ recentFolders = <<>>
    /\ storedRecent = NoStored
    /\ advMounted = FALSE
    /\ rerunPending = FALSE
    /\ advCalls = 0
    /\ lastVisit = [f \in NavTargets |-> 0]
    /\ clock = 0

\* The first render of the component opened with ?path=p (or without a path)
\* over what localStorage holds.
RecentFirstRender ==
    /\ advPath \in NavTargets \cup {NoFolder}
    /\ storedRecent \in StoredValues
    /\ recentFolders = LoadRecent(storedRecent)
    /\ advMounted = FALSE
    /\ rerunPending = FALSE
    /\ advCalls = 0
    /\ lastVisit = [f \in NavTargets |-> 0]
    /\ clock = 0

\* The path effect with currentPath set: loadFolderContents() up to its await,
\* and addToRecent(currentPath), which sets the state and writes localStorage.
\* setRecentFolders is given a new array, so the next render has a new
\* addToRecent and the effect runs again.
AdvPathEffect(path) ==
    /\ advCalls < MaxInflight
    /\ advCalls' = advCalls + 1
    /\ recentFolders' = addToRecentUpdated(path, recentFolders)
    /\ storedRecent' = Stringify(addToRecentUpdated(path, recentFolders))
    /\ rerunPending' = TRUE

Visit(path) ==
    /\ clock < MaxVisits
    /\ clock' = clock + 1
    /\ lastVisit' = [lastVisit EXCEPT ![path] = clock + 1]

\* The effects after the first render.
AdvMount ==
    /\ view = "FileExplorerAdvanced"
    /\ ~advMounted
    /\ advMounted' = TRUE
    /\ IF advPath # NoFolder
       THEN AdvPathEffect(advPath) /\ Visit(advPath)
       ELSE UNCHANGED <<advCalls, recentFolders, storedRecent, rerunPending,
                        lastVisit, clock>>
    /\ UNCHANGED <<view, panelVars, browserVars, searchVars, statusVars, listVars,
                   labelVars, explorerVars, advPath>>

\* navigateToFolder(path): setCurrentPath(path), and the path effect of the
\* render that follows when the path is a new one.
advNavigateToFolder(path) ==
    /\ view = "FileExplorerAdvanced"
    /\ advMounted
    /\ advPath' = path
    /\ IF path # advPath
       THEN AdvPathEffect(path) /\ Visit(path)
       ELSE UNCHANGED <<advCalls, recentFolders, storedRecent, rerunPending,
                        lastVisit, clock>>
    /\ UNCHANGED <<view, panelVars, browserVars, searchVars, statusVars, listVars,
                   labelVars, explorerVars, advMounted>>

\* The path effect run again because addToRecent changed.
AdvPathEffectAgain ==
    /\ view = "FileExplorerAdvanced"
    /\ advMounted
    /\ rerunPending
    /\ advPath # NoFolder
    /\ AdvPathEffect(advPath)
    /\ UNCHANGED <<view, panelVars, browserVars, searchVars, statusVars, listVars,
                   labelVars, explorerVars, advPath, advMounted, lastVisit, clock>>

\* A browseFolder call of loadFolderContents completed, either way.
AdvContentsSettled ==
    /\ view = "FileExplorerAdvanced"
    /\ advCalls > 0
    /\ advCalls' = advCalls - 1
    /\ UNCHANGED <<view, panelVars, browserVars, searchVars, statusVars, listVars,
                   labelVars, explorerVars, advPath, recentFolders, storedRecent, advMounted,
                   rerunPending, lastVisit, clock>>

\* ------------------------------------------------------------ FileExplorer
\* The view "FileExplorer" is the component of unnamed/part_004 seen through
\* currentPath, searchQuery, currentPage, items, filteredItems, loading, error
\* and the URL; roots, totalItems, folderStats and selectedItems are not part
\* of it.
PageSize == 30

\* A query parameter: <<>> when the URL does not carry it, else <<value>>.
NoParam == <<>>

ExQueries == StringsOver({" ", "a", "F"}, 1)

\* The URLs the page is opened with.
Links ==
    [path : {NoParam} \cup {<<p>> : p \in Paths},
     search : {NoParam} \cup {<<q>> : q \in ExQueries},
     page : {NoParam} \cup {<<n>> : n \in 0..MaxPage}]

\* setSearchParams({ path, search, page: String(page) })
UrlOf(path, q, page) == [path |-> <<path>>, search |-> <<q>>, page |-> <<page>>]

\* searchParams.get("path") || null
PathOfUrl(url) == IF url.path = NoParam THEN NoPath ELSE url.path[1]

\* searchParams.get("search") || ""
SearchOfUrl(url) == IF url.search = NoParam THEN <<>> ELSE url.search[1]

\* parseInt(searchParams.get("page")) || 1
PageOfUrl(url) == IF url.page = NoParam \/ url.page[1] = 0 THEN 1 ELSE url.page[1]

\* String.prototype.toLowerCase, over the letters the names and queries use.
ToLower(c) == IF c = "A" THEN "a" ELSE IF c = "F" THEN "f" ELSE c

LowerCase(s) == [i \in 1..Len(s) |-> ToLower(s[i])]

\* String.prototype.includes: q occurs in s as a run of consecutive characters.
Includes(s, q) == \E i \in 0..(Len(s) - Len(q)) : SubSeq(s, i + 1, i + Len(q)) = q

\* The types and the kinds of the items of a folder.
TypeFile == <<"f", "i", "l", "e">>

TypeFolder == <<"f", "o", "l", "d", "e", "r">>

FileKind == [name |-> <<"A">>, type |-> TypeFile]

FolderKind == [name |-> <<"b">>, type |-> TypeFolder]

ExItemKinds == {FileKind, FolderKind}

\* An item of a response: id stands for its path, which is its React key.
ItemAt(i, kind) == [id |-> i, name |-> kind.name, type |-> kind.type]

\* The item lists a response carries: every short list, and two long ones, of
\* exactly one page and of one item more, whose kinds alternate.
ShortEntries ==
    UNION {{[i \in 1..k |-> ItemAt(i, f[i])] : f \in [1..k -> ExItemKinds]} :
             k \in 0..MaxItems}

LongEntries(n) ==
    [i \in 1..n |->
        ItemAt(i, IF i % 2 = 1 THEN FileKind ELSE FolderKind)]

ExEntries == ShortEntries \cup {LongEntries(PageSize), LongEntries(PageSize + 1)}

\* A listing: the folder it is of and response.items.
ExListings(p) == [path : {p}, entries : ExEntries]

NoItems == [path |-> NoPath, entries |-> <<>>]

\* The predicate of items.filter in the search effect; q is the lower-cased query.
ItemMatches(item, q) ==
    \/ Includes(LowerCase(item.name), q)
    \/ Includes(LowerCase(item.type), q)

\* The filter of the search effect: the value it passes to setFilteredItems.
FilterItems(entries, q) ==
    IF Trim(q) = <<>>
    THEN entries
    ELSE SelectSeq(entries, LAMBDA item : ItemMatches(item, LowerCase(q)))

\* Math.ceil(filteredItems.length / pageSize)
TotalPages(count) == (count + PageSize - 1) \div PageSize

Min(a, b) == IF a < b THEN a ELSE b

\* Array.prototype.slice(start, end) with 0 <= start <= end: both ends are
\* clamped to the length.
Slice(s, start, end) == SubSeq(s, Min(start, Len(s)) + 1, Min(end, Len(s)))

\* filteredItems.slice((currentPage - 1) * pageSize, currentPage * pageSize)
PaginatedItems(filtered, page) == Slice(filtered, (page - 1) * PageSize, page * PageSize)

ExInflight == SumOver(exCalls, Paths) + exRootCalls

ExplorerInit ==
    /\ exUrl = [path |-> NoParam, search |-> NoParam, page |-> NoParam]
    /\ exPath = NoPath
    /\ exSearch = <<>>
    /\ exPage = 1
    /\ exItems = NoItems
    /\ exFiltered = <<>>
    /\ exLoading = FALSE
    /\ exError = "none"
    /\ exCalls = [p \in Paths |-> 0]
    /\ exRootCalls = 0
    /\ exMounted = FALSE

\* The first render of the page opened with one of the links.
ExplorerFirstRender ==
    /\ exUrl \in Links
    /\ exPath = PathOfUrl(exUrl)
    /\ exSearch = SearchOfUrl(exUrl)
    /\ exPage = PageOfUrl(exUrl)
    /\ exItems = NoItems
    /\ exFiltered = <<>>
    /\ exLoading = FALSE
    /\ exError = "none"
    /\ exCalls = [p \in Paths |-> 0]
    /\ exRootCalls = 0
    /\ exMounted = FALSE

PageKept(page) == page

\* The page the effects leave: both the path effect and the search effect call
\* setCurrentPage(1).
PageAfterEffects(page) == 1

\* The search effect over the values of the render it runs after: the filter,
\* setCurrentPage(1), and updateQueryParams with page "1".  It runs last, so
\* its URL is the one that stays when the path effect ran in the same commit.
ExSearchEffect(path, q, items) ==
    /\ exFiltered' = FilterItems(items.entries, q)
    /\ exPage' = PageAfterEffects(exPage)
    /\ exUrl' = UrlOf(path, q, PageAfterEffects(exPage))

\* The path effect with currentPath set: loadFolderContents up to its await.
ExPathEffect(path) ==
    /\ exLoading' = TRUE
    /\ exError' = "none"
    /\ exCalls' = [exCalls EXCEPT ![path] = @ + 1]

\* The effects after the first render: loadRoots up to its await, the path
\* effect when the URL gave a path, and the search effect.
ExMount ==
    /\ view = "FileExplorer"
    /\ ~exMounted
    /\ exMounted' = TRUE
    /\ exRootCalls' = exRootCalls + 1
    /\ IF exPath # NoPath
       THEN ExPathEffect(exPath)
       ELSE exLoading' = TRUE /\ UNCHANGED <<exError, exCalls>>
    /\ ExSearchEffect(exPath, exSearch, exItems)
    /\ UNCHANGED <<view, panelVars, browserVars, searchVars, statusVars, listVars,
                   labelVars, recentVars, exPath, exSearch, exItems>>

\* navigateToFolder(path): setCurrentPath(path); when the path is a new one the
\* path effect and the search effect run after the render.
exNavigateToFolder(path) ==
    /\ view = "FileExplorer"
    /\ exMounted
    /\ exPath' = path
    /\ IF path # exPath
       THEN /\ ExInflight < MaxInflight
            /\ ExPathEffect(path)
            /\ ExSearchEffect(path, exSearch, exItems)
       ELSE UNCHANGED <<exLoading, exError, exCalls, exFiltered, exPage, exUrl>>
    /\ UNCHANGED <<view, panelVars, browserVars, searchVars, statusVars, listVars,
                   labelVars, recentVars, exSearch, exItems, exRootCalls, exMounted>>

\* handleSearchChange: setSearchQuery(q), then the search effect.
handleSearchChange(q) ==
    /\ view = "FileExplorer"
    /\ exMounted
    /\ q # exSearch
    /\ exSearch' = q
    /\ ExSearchEffect(exPath, q, exItems)
    /\ UNCHANGED <<view, panelVars, browserVars, searchVars, statusVars, listVars,
                   labelVars, recentVars, exPath, exItems, exLoading, exError,
                   exCalls, exRootCalls, exMounted>>

\* The pages the pagination controls offer: none unless totalPages > 1; then
\* every page number, the previous page unless on page 1, the next page unless
\* on the last.
OfferedPages ==
    IF TotalPages(Len(exFiltered)) > 1
    THEN (1..TotalPages(Len(exFiltered)))
             \cup (IF exPage # 1 THEN {exPage - 1} ELSE {})
             \cup (IF exPage # TotalPages(Len(exFiltered)) THEN {exPage + 1} ELSE {})
    ELSE {}

goToPage(page) ==
    /\ view = "FileExplorer"
    /\ exMounted
    /\ page \in OfferedPages
    /\ exPage' = page
    /\ exUrl' = UrlOf(exPath, exSearch, page)
    /\ UNCHANGED <<view, panelVars, browserVars, searchVars, statusVars, listVars,
                   labelVars, recentVars, exPath, exSearch, exItems, exFiltered,
                   exLoading, exError, exCalls, exRootCalls, exMounted>>

\* browseFolder(path) resolved: setItems, setFilteredItems, setLoading(false),
\* then the search effect, since items changed.
ExContentsResolved(path, listing) ==
    /\ view = "FileExplorer"
    /\ exCalls[path] > 0
    /\ exCalls' = [exCalls EXCEPT ![path] = @ - 1]
    /\ exItems' = listing
    /\ exLoading' = FALSE
    /\ ExSearchEffect(exPath, exSearch, listing)
    /\ UNCHANGED <<view, panelVars, browserVars, searchVars, statusVars, listVars,
                   labelVars, recentVars, exPath, exSearch, exError, exRootCalls,
                   exMounted>>

\* browseFolder(path) rejected: setError, setItems([]), setFilteredItems([]),
\* setLoading(false), then the search effect.
ExContentsRejected(path) ==
    /\ view = "FileExplorer"
    /\ exCalls[path] > 0
    /\ exCalls' = [exCalls EXCEPT ![path] = @ - 1]
    /\ exItems' = NoItems
    /\ exError' = "contents"
    /\ exLoading' = FALSE
    /\ ExSearchEffect(exPath, exSearch, NoItems)
    /\ UNCHANGED <<view, panelVars, browserVars, searchVars, statusVars, listVars,
                   labelVars, recentVars, exPath, exSearch, exRootCalls, exMounted>>

\* getRootFolders of loadRoots settled: setError(null) or setError(message),
\* then setLoading(false).
ExRootsSettled(ok) ==
    /\ view = "FileExplorer"
    /\ exRootCalls > 0
    /\ exRootCalls' = exRootCalls - 1
    /\ exError' = IF ok THEN "none" ELSE "roots"
    /\ exLoading' = FALSE
    /\ UNCHANGED <<view, panelVars, browserVars, searchVars, statusVars, listVars,
                   labelVars, recentVars, exUrl, exPath, exSearch, exPage, exItems,
                   exFiltered, exCalls, exMounted>>

\* ------------------------------------------------------- next-state relations
SearchNext ==
    \/ \E q \in Queries : setQuery(q)
    \/ HomeDoSearch
    \/ IndexedDoSearch
    \/ \E body \in SearchBodies : SearchResolved(body)
    \/ SearchRejected
    \/ \E hasFile \in BOOLEAN : handleFile(hasFile)
    \/ UploadResolved
    \/ UploadRejected

StatusNext == \E p \in AbsPaths : RenderFolderRow(p)

BrowserNext ==
    \/ \E p \in Paths : toggleRoot(p)
    \/ \E p \in Paths : toggleFolder(p)
    \/ \E p \in Paths : handleSelectFolder(p)
    \/ \E p \in Paths, v \in Versions : BrowseResolved(p, v)
    \/ \E p \in Paths : BrowseRejected(p)

ExplorerNext ==
    \/ ExMount
    \/ \E path \in Paths : exNavigateToFolder(path)
    \/ \E q \in ExQueries : handleSearchChange(q)
    \/ \E page \in 0..(MaxPage + 1) : goToPage(page)
    \/ \E path \in Paths : \E listing \in ExListings(path) :
           ExContentsResolved(path, listing)
    \/ \E path \in Paths : ExContentsRejected(path)
    \/ \E ok \in BOOLEAN : ExRootsSettled(ok)

RecentNext ==
    \/ AdvMount
    \/ \E path \in NavTargets : advNavigateToFolder(path)
    \/ AdvPathEffectAgain
    \/ AdvContentsSettled

LabelNext ==
    \/ \E item \in ResultItems : RenderHomeResult(item)
    \/ \E r \in ResultItems : RenderIndexedResult(r)

ListNext ==
    \/ MountEffect
    \/ \E a \in FolderAnswers : IndexedFoldersResolved(a)
    \/ \E st \in LoadStages, r \in FolderAnswers : RootFoldersResolved(st, r)
    \/ \E st \in LoadStages : LoadFoldersRejected(st)
    \/ \E f \in Files : toggleFileSelect(f)
    \/ clearSelectedFiles
    \/ \E c \in BOOLEAN : indexFolder(c)
    \/ IndexFolderResolved
    \/ IndexFolderRejected
    \/ \E c \in BOOLEAN : indexSelectedFiles(c)
    \/ \E ps \in PathSets, res \in IndexFilesBodies : IndexFilesResolved(ps, res)
    \/ \E ps \in PathSets : IndexFilesRejected(ps)

PanelNext ==
    \/ handleStartIndexing
    \/ StartResolved
    \/ StartRejected
    \/ \E j \in JobIds : Tick(j)
    \/ \E j \in JobIds, p \in ProgressValues, d \in BOOLEAN : StatusResolved(j, p, d)
    \/ \E j \in JobIds : StatusRejected(j)
    \/ Unmount

InitPanel ==
    /\ view = "IndexingPanel"
    /\ PanelInit /\ BrowserInit /\ SearchInit /\ StatusIdle /\ ListInit /\ LabelInit /\ RecentInit /\ ExplorerInit

InitBrowser ==
    /\ view \in {"Folder", "FolderList"}
    /\ PanelInit /\ BrowserInit /\ SearchInit /\ StatusIdle /\ ListInit /\ LabelInit /\ RecentInit /\ ExplorerInit

InitSearch ==
    /\ view \in {"Home", "Indexed"}
    /\ PanelInit /\ BrowserInit /\ SearchInit /\ StatusIdle /\ ListInit /\ LabelInit /\ RecentInit /\ ExplorerInit

InitStatus ==
    /\ view = "FolderStatus"
    /\ PanelInit /\ BrowserInit /\ SearchInit /\ StatusInit /\ ListInit /\ LabelInit /\ RecentInit /\ ExplorerInit

InitRecent ==
    /\ view = "FileExplorerAdvanced"
    /\ PanelInit /\ BrowserInit /\ SearchInit /\ StatusIdle /\ ListInit /\ LabelInit
    /\ RecentFirstRender /\ ExplorerInit

InitExplorer ==
    /\ view = "FileExplorer"
    /\ PanelInit /\ BrowserInit /\ SearchInit /\ StatusIdle /\ ListInit /\ LabelInit
    /\ RecentInit /\ ExplorerFirstRender

InitList ==
    /\ view = "FolderListIndexing"
    /\ PanelInit /\ BrowserInit /\ SearchInit /\ StatusIdle /\ ListInit /\ LabelInit /\ RecentInit /\ ExplorerInit

Init == InitPanel \/ InitBrowser \/ InitSearch \/ InitStatus \/ InitList \/ InitRecent
          \/ InitExplorer

Next == PanelNext \/ BrowserNext \/ SearchNext \/ StatusNext \/ ListNext \/ LabelNext
          \/ RecentNext \/ ExplorerNext

Spec == Init /\ [][Next]_vars

SpecBrowser == InitBrowser /\ [][BrowserNext]_vars

SpecSearch == InitSearch /\ [][SearchNext]_vars

SpecStatus == InitStatus /\ [][StatusNext]_vars

SpecPanel == InitPanel /\ [][PanelNext]_vars

\* The panel with a running clock and a backend that answers: a live interval
\* keeps firing, a status call in flight is settled, and a job that keeps being
\* polled is eventually reported done.
PanelFairness ==
    \A j \in JobIds :
        /\ WF_vars(Tick(j))
        /\ WF_vars(StatusRejected(j)
                      \/ \E p \in ProgressValues, d \in BOOLEAN : StatusResolved(j, p, d))
        /\ SF_vars(\E p \in ProgressValues : StatusResolved(j, p, TRUE))

SpecPanelLive == InitPanel /\ [][PanelNext]_vars /\ PanelFairness

SpecList == InitList /\ [][ListNext]_vars

SpecRecent == InitRecent /\ [][RecentNext]_vars

SpecExplorer == InitExplorer /\ [][ExplorerNext]_vars

\* The components whose handlers call the backend on a user action: the
\* IndexingPanel, the folder browsers, FolderList's indexing and the search panels.
InitCallers == InitPanel \/ InitBrowser \/ InitList \/ InitSearch

CallersNext == PanelNext \/ BrowserNext \/ ListNext \/ SearchNext

SpecCallers == InitCallers /\ [][CallersNext]_vars

\* The search panels as renderers of results.
SpecLabel == InitSearch /\ [][LabelNext]_vars

\* The components that validate an input before they call the backend.
InitValidation == InitList \/ InitSearch

SpecValidation == InitValidation /\ [][ListNext \/ SearchNext]_vars

\* ---------------------------------------------------------------- claims
\* C1: once a status response with done == true has been handled for a job, the
\* interval of that job is cancelled and no further getIndexStatus call is
\* issued for it, whatever the interleaving of ticks and responses.
C1_NoPollAfterDone ==
    /\ [](doneSeen \cap timers = {})
    /\ [][\A j \in doneSeen : statusCalls'[j] <= statusCalls[j]]_vars

\* C1 witness: done was observed for the current job while an earlier call for it
\* was still in flight.
C1_Witness ==
    /\ mounted
    /\ jobId \in doneSeen
    /\ status = StatusDone
    /\ statusCalls[jobId] > 0

\* C2 (as claimed): every value written to progress comes from a response to a
\* status call for the job id that is current when it is written.
C2_NoStaleProgress ==
    [][\A j \in JobIds, p \in ProgressValues, d \in BOOLEAN :
          (mounted /\ StatusResolved(j, p, d)) => j = jobId]_vars

\* C3: at most one polling timer is live, it polls the current job id, and none
\* is live after unmount.
C3_OneTimerForCurrentJob ==
    /\ Cardinality(timers) <= 1
    /\ \A j \in timers : j = jobId
    /\ ~mounted => timers = {}

\* C3 witness: a second job superseded the first and its timer is the live one.
C3_Witness ==
    /\ mounted
    /\ nextJob = 2
    /\ jobId = 2
    /\ timers = {2}

C4_OnSuccess ==
    (mounted /\ StartResolved) =>
        (/\ status' = StatusStarted
         /\ jobId' = nextJob'
         /\ jobId' \in JobIds
         /\ timers' = {jobId'})

C4_OnFailure ==
    (mounted /\ StartRejected) =>
        (/\ status' = StatusStartError
         /\ jobId' = jobId
         /\ timers' = timers
         /\ statusCalls' = statusCalls)

\* C4: a successful startIndexing makes the state Started with the returned job id
\* and a live poller for it; a failed one makes the state Error, leaves the
\* job id as it was (unset when no job was started) and starts no polling.
C4_StartOutcome ==
    [][C4_OnSuccess /\ C4_OnFailure]_vars

\* C4 witness: the first startIndexing call failed.
C4_Witness ==
    /\ mounted
    /\ status = StatusStartError
    /\ jobId = NoJob
    /\ timers = {}
    /\ nextJob = 0

\* C5 (as claimed): a status poll that fails while the job is being polled moves
\* the job to Error.
C5_FailedPollIsError ==
    [][\A j \in JobIds :
          (mounted /\ j = jobId /\ j \in timers /\ StatusRejected(j))
              => status' \notin {StatusNotStarted, StatusStarted, StatusDone}]_vars

\* C6 (as claimed): a toggle that expands a path with no cached contents issues
\* exactly one browse call; a toggle that collapses, or that expands a path whose
\* contents are cached, issues none.
C6_BrowseOncePerPath ==
    [][\A p \in Paths :
          (toggleRoot(p) \/ toggleFolder(p)) =>
              BrowseInflight' = BrowseInflight
                  + (IF ExpandedPath # p /\ ContentsByPath[p] = Absent THEN 1 ELSE 0)]_vars

\* C7 (as claimed): two toggles of p in succession return the expanded path to the
\* value it had before them, whatever was expanded.
C7_ToggleTwiceRestores ==
    lastToggle.n = 2 => ExpandedPath = lastToggle.prev2

\* C7 (amended): two toggles of p in succession restore the expanded path when
\* nothing or p itself was expanded before them, and leave nothing expanded when
\* another path was.
C7_ToggleTwice ==
    lastToggle.n = 2 =>
        ExpandedPath = (IF lastToggle.prev2 \in {NoPath, lastToggle.path}
                        THEN lastToggle.prev2
                        ELSE NoPath)

\* C7 witness: another path was expanded before p was toggled twice.
C7_Witness ==
    /\ lastToggle.n = 2
    /\ lastToggle.prev2 \notin {NoPath, lastToggle.path}
    /\ ExpandedPath = NoPath

\* f is p followed by "/" and anything.
C8_Below(f, p) ==
    /\ Len(f) > Len(p)
    /\ \A i \in 1..Len(p) : f[i] = p[i]
    /\ f[Len(p) + 1] = "/"

\* f is a descendant of p: below p, or, when p already ends with "/", p followed
\* by anything.
C8_Inside(f, p) ==
    IF p[Len(p)] = "/"
    THEN Len(f) >= Len(p) /\ \A i \in 1..Len(p) : f[i] = p[i]
    ELSE C8_Below(f, p)

\* C8 (as claimed): indexed when p is in the set; partial when p is absent and some
\* indexed path starts with p followed by "/"; none otherwise.
C8_StatusBySlashAfterPath ==
    renderedPath # <<>> =>
        folderStatus =
            (IF renderedPath \in indexedFolders THEN "indexed"
             ELSE IF \E f \in indexedFolders : C8_Below(f, renderedPath) THEN "partial"
             ELSE "none")

\* C8 (amended): as claimed, except that for a p that already ends with "/" an
\* indexed path is a descendant when it starts with p itself.
C8_Status ==
    renderedPath # <<>> =>
        folderStatus =
            (IF renderedPath \in indexedFolders THEN "indexed"
             ELSE IF \E f \in indexedFolders : C8_Inside(f, renderedPath) THEN "partial"
             ELSE "none")

\* C8 witness: the sibling "/aa" of "/a" is indexed and "/a" is reported none.
C8_Witness ==
    /\ renderedPath = <<"/", "a">>
    /\ <<"/", "a", "a">> \in indexedFolders
    /\ folderStatus = "none"

\* C9 (as claimed): in every search panel a search with an empty or
\* whitespace-only query issues no search call and leaves the results empty.
C9_BlankQueryNoCall ==
    [][((HomeDoSearch \/ IndexedDoSearch) /\ \A i \in 1..Len(query) : query[i] = " ")
          => (searchCalls' = searchCalls /\ results' = <<>>)]_vars

C10_OnSuccess ==
    \A body \in SearchBodies :
        SearchResolved(body) =>
            /\ results' = (IF body.has THEN body.results ELSE <<>>)
            /\ view = "Home" => loading' = FALSE

C10_OnFailure ==
    SearchRejected =>
        /\ results' = <<>>
        /\ view = "Home" => loading' = FALSE

C11_BrowseFailureChangesNothing ==
    [][\A p \in Paths :
          BrowseRejected(p) =>
              /\ ExpandedPath' = ExpandedPath
              /\ ContentsByPath' = ContentsByPath
              /\ selectedFolder' = selectedFolder]_vars

\* C11 witness: the browse of the expanded, uncached path failed while another
\* path is cached.
C11_Witness ==
    /\ lastBrowse.kind = "failed"
    /\ ExpandedPath = lastBrowse.path
    /\ ContentsByPath[lastBrowse.path] = Absent
    /\ \E q \in Paths : q # lastBrowse.path /\ ContentsByPath[q] # Absent

C12_OnSelect ==
    \A p \in Paths :
        handleSelectFolder(p) =>
            /\ selectedFolder' = p
            /\ browseCalls' = [browseCalls EXCEPT ![p] = @ + 1]
            /\ contents' = contents
            /\ expanded' = expanded

C12_OnSuccess ==
    \A p \in Paths, v \in Versions :
        (view = "FolderList" /\ BrowseResolved(p, v)) =>
            /\ contents'[p] = [path |-> p, ver |-> v]
            /\ \A q \in Paths \ {p} : contents'[q] = contents[q]
            /\ expanded' = expanded
            /\ selectedFolder' = selectedFolder

\* C12: selecting a folder makes it the preview target and issues a browse call
\* for it, cached or not; the response replaces the entry of that path only and
\* leaves the expanded path alone.
C12_SelectRefetches ==
    [][C12_OnSelect /\ C12_OnSuccess]_vars

\* C12 witness: the selected folder was cached and its entry was replaced by a
\* different listing.
C12_Witness ==
    /\ view = "FolderList"
    /\ lastBrowse.kind = "ok"
    /\ lastBrowse.path = selectedFolder
    /\ lastBrowse.before # Absent
    /\ lastBrowse.before # contents[selectedFolder]

\* The count a response body of indexFiles carries, in either field.
C13_CountOf(res) == IF res.indexed # Undefined THEN res.indexed ELSE res.indexed_count

\* C13: when an indexFiles call succeeds, the message shown cites the count of the
\* response body, from the field indexed or from the field indexed_count,
\* whichever the body carries; the step creates no job id and starts no poller.
C13_CitesReturnedCount ==
    [][\A ps \in PathSets, res \in IndexFilesBodies :
          IndexFilesResolved(ps, res) =>
              (/\ lastAlert'.kind = "indexed"
               /\ lastAlert'.cited = C13_CountOf(res)
               /\ UNCHANGED <<jobId, timers, statusCalls>>)]_vars

\* C14: when a run of loadFolders fails, the indexed folders and the available
\* folders shown are empty afterwards.
C14_FailedLoadClears ==
    [][\A st \in LoadStages :
          LoadFoldersRejected(st) =>
              (indexedFolders' = {} /\ availableFolders' = {})]_vars

\* The two local validations: an empty selection, and no file chosen.
C15_NoSelection ==
    (\E c \in BOOLEAN : indexSelectedFiles(c)) /\ selectedFiles = {} =>
        UNCHANGED <<indexedFolders, availableFolders, listLoading, selectedFiles,
                    loadCalls, indexCalls, indexFilesCalls>>

C15_NoFile ==
    handleFile(FALSE) =>
        UNCHANGED <<query, results, loading, uploading, searchCalls, uploadCalls>>

\* C15: indexSelectedFiles with no file selected and handleFile with no file
\* chosen issue no request and leave every state cell as it was.
C15_LocalValidation == [][C15_NoSelection /\ C15_NoFile]_vars

C15_WitnessList ==
    /\ lastAlert.kind = "no-files-selected"
    /\ selectedFiles = {}
    /\ indexedFolders # {}

C15_WitnessUpload == lastPick = "no-file" /\ results # <<>>

C15_Witness == C15_WitnessList \/ C15_WitnessUpload

\* C16: in every view that renders search results, the label of a result is its
\* title when that is not empty, else its name when that is not empty, else its
\* path or id.
C16_LabelOrder ==
    IF renderedItem.title # <<>> THEN label = renderedItem.title
    ELSE IF renderedItem.name # <<>> THEN label = renderedItem.name
    ELSE label \in {renderedItem.path, renderedItem.id}

\* The parts of the recents invariant.
C17_Capped == Len(recentFolders) <= RecentCap

C17_NoDuplicates ==
    \A i, j \in 1..Len(recentFolders) : recentFolders[i] = recentFolders[j] => i = j

C17_LastVisitOf(f) == IF f \in NavTargets THEN lastVisit[f] ELSE 0

C17_MostRecentFirst ==
    /\ advMounted /\ advPath # NoFolder => recentFolders[1] = advPath
    /\ \A f \in NavTargets : lastVisit[f] > 0 =>
           \E i \in 1..Len(recentFolders) : recentFolders[i] = f
    /\ \A i, j \in 1..Len(recentFolders) :
           i < j /\ C17_LastVisitOf(recentFolders[j]) > 0 =>
               C17_LastVisitOf(recentFolders[i]) > C17_LastVisitOf(recentFolders[j])

C17_StoredIsState == LoadRecent(storedRecent) = recentFolders

\* C17: in the advanced explorer the recents list has at most 10 entries and no
\* path twice; the current folder is first, the folders visited follow in the
\* order of their last visit, before those of earlier sessions; and the value
\* under the localStorage key, read back, is the list held in state.
C17_Recents ==
    C17_Capped /\ C17_NoDuplicates /\ C17_MostRecentFirst /\ C17_StoredIsState

\* A full list of an earlier session, whose last folder was revisited and then a
\* fresh folder opened: the fresh one is first and an old one has dropped out.
C17_Witness ==
    /\ Len(recentFolders) = RecentCap
    /\ recentFolders[1] = RecentCap + 1
    /\ recentFolders[2] = RecentCap
    /\ \A i \in 1..Len(recentFolders) : recentFolders[i] # RecentCap - 1
    /\ storedRecent = Stringify(recentFolders)

\* C18: when the FileExplorer is opened with ?path=P&search=S&page=N, then after
\* the effects of the first render the current path is P, the search term is S,
\* the current page is N, and the URL still carries the three values.
C18_DeepLink ==
    [][ExMount /\ exUrl.path # NoParam /\ exUrl.search # NoParam
          /\ exUrl.page # NoParam /\ exUrl.page[1] > 0 =>
              (/\ exPath' = exUrl.path[1]
               /\ exSearch' = exUrl.search[1]
               /\ exPage' = exUrl.page[1]
               /\ exUrl' = exUrl)]_vars

\* One call more in flight than before, under some key.
C19_OneMore(calls, calls2, keys) ==
    \E k \in keys : calls2 = [calls EXCEPT ![k] = @ + 1]

C19_Rises(calls, calls2, keys) == \E k \in keys : calls2[k] > calls[k]

C19_OnePerAction ==
    /\ startCalls' > startCalls =>
           (startCalls' = startCalls + 1 /\ handleStartIndexing)
    /\ indexCalls' > indexCalls =>
           (indexCalls' = indexCalls + 1 /\ \E c \in BOOLEAN : indexFolder(c))
    /\ C19_Rises(indexFilesCalls, indexFilesCalls', PathSets) =>
           (/\ C19_OneMore(indexFilesCalls, indexFilesCalls', PathSets)
            /\ \E c \in BOOLEAN : indexSelectedFiles(c))
    /\ C19_Rises(browseCalls, browseCalls', Paths) =>
           (/\ C19_OneMore(browseCalls, browseCalls', Paths)
            /\ \E p \in Paths : toggleRoot(p) \/ toggleFolder(p) \/ handleSelectFolder(p))
    /\ searchCalls' > searchCalls =>
           (/\ searchCalls' = searchCalls + 1
            /\ HomeDoSearch \/ IndexedDoSearch \/ UploadResolved)
    /\ uploadCalls' > uploadCalls =>
           (uploadCalls' = uploadCalls + 1 /\ \E f \in BOOLEAN : handleFile(f))

C19_NoRetry ==
    /\ StartRejected => startCalls' = startCalls - 1
    /\ IndexFolderRejected => indexCalls' = indexCalls - 1
    /\ \A ps \in PathSets : IndexFilesRejected(ps) =>
           indexFilesCalls' = [indexFilesCalls EXCEPT ![ps] = @ - 1]
    /\ \A p \in Paths : BrowseRejected(p) =>
           browseCalls' = [browseCalls EXCEPT ![p] = @ - 1]
    /\ SearchRejected => searchCalls' = searchCalls - 1
    /\ UploadRejected => (uploadCalls' = uploadCalls - 1 /\ searchCalls' = searchCalls)

\* C19: a step that issues a request to the endpoint of start indexing, index
\* selected files, expand, select, search or upload issues one request and is
\* that user action (the search after a successful upload apart); and the step
\* that handles a failed request issues none.
C19_AtMostOnce == [][C19_OnePerAction /\ C19_NoRetry]_vars

\* A request of indexFolder or of indexSelectedFiles has failed, its message is
\* shown, and no call is in flight.
C19_Witness ==
    /\ view = "FolderListIndexing"
    /\ lastAlert.kind \in {"indexing-failed", "index-files-failed"}
    /\ ListInflight = 0

\* While job j is the panel's job, the panel is mounted and done was not
\* observed for j, the interval of j is live.
C20_TimerLive ==
    \A j \in JobIds : mounted /\ jobId = j /\ j \notin doneSeen => j \in timers

\* Every firing of a live interval issues a status call.
C20_TickPolls ==
    \A j \in JobIds : Tick(j) => statusCalls'[j] = statusCalls[j] + 1

\* The job j is being polled, and: it is done with its interval cancelled,
\* unless the panel was unmounted or given another job.
C20_Polled(j) == mounted /\ jobId = j /\ j \in timers

C20_Settled(j) == ~mounted \/ jobId # j \/ (status = StatusDone /\ j \notin timers)

\* C20: the poller of the panel's job issues a status call at every tick for as
\* long as done is not observed, however many ticks that takes; with ticks that
\* keep firing, calls that are answered and a backend that eventually answers
\* done, the panel reaches status done with the timer cancelled, also after
\* status calls that failed.
C20_PollsUntilDone ==
    /\ []C20_TimerLive
    /\ [][C20_TickPolls]_vars
    /\ \A j \in JobIds : C20_Polled(j) ~> C20_Settled(j)

\* Done was reached for the panel's job after one of its status calls failed.
C20_Witness ==
    /\ mounted
    /\ jobId \in doneSeen
    /\ jobId \in pollFailed
    /\ status = StatusDone
    /\ jobId \notin timers

\* C21: in the file explorer, once no browse call is in flight, the items held
\* are those of the current path: after navigating to A and then to B while
\* the browse of A is in flight, the list finally holds the contents of B
\* whatever the order of the two responses.
C21_ItemsOfCurrentPath ==
    (/\ view = "FileExplorer"
     /\ \A p \in Paths : exCalls[p] = 0
     /\ exItems # NoItems) => exItems.path = exPath

\* The pages 1..n of a list, one after the other.
RECURSIVE C22_Pages(_, _)
C22_Pages(filtered, n) ==
    IF n = 0 THEN <<>> ELSE C22_Pages(filtered, n - 1) \o PaginatedItems(filtered, n)

\* No page holds more than pageSize items, and the pages 1..totalPages hold
\* the filtered items once each and in order.
C22_PagesPartition ==
    /\ \A page \in 1..(TotalPages(Len(exFiltered)) + 1) :
           Len(PaginatedItems(exFiltered, page)) <= PageSize
    /\ C22_Pages(exFiltered, TotalPages(Len(exFiltered))) = exFiltered

\* Once the effects of the first render have run, the current page is one of
\* 1..max(1, totalPages).
C22_PageInRange ==
    view = "FileExplorer" /\ exMounted =>
        /\ exPage >= 1
        /\ exPage <= TotalPages(Len(exFiltered)) \/ exPage = 1

\* A step that changes the search term or the path leaves the page at 1.
C22_ResetOnChange ==
    exMounted /\ (exSearch' # exSearch \/ exPath' # exPath) => exPage' = 1

\* C22: pagination in the file explorer: every page shows at most pageSize
\* items; pages 1..totalPages, with totalPages = ceil(|filteredItems| / pageSize),
\* show each filtered item exactly once and in order; after any sequence of
\* Previous, Next, page-number, search and path actions the current page is
\* within 1..max(1, totalPages); a change of search term or path resets it to 1.
C22_Pagination ==
    /\ []C22_PagesPartition
    /\ []C22_PageInRange
    /\ [][C22_ResetOnChange]_vars

\* The second of two pages is shown.
C22_Witness ==
    /\ view = "FileExplorer"
    /\ exMounted
    /\ Len(exFiltered) = PageSize + 1
    /\ exPage = 2
    /\ Len(PaginatedItems(exFiltered, exPage)) = 1

\* The name of the item contains the term, letter case apart.
C23_NameContains(item, term) == Includes(LowerCase(item.name), LowerCase(term))

\* C23: client-side search in the file explorer: once the effects have run,
\* filteredItems is exactly the sub-sequence of items whose name contains the
\* search term case-insensitively, and is items when the term is empty or
\* whitespace, also right after a folder's contents are loaded while a term is
\* active.
C23_FilterByName ==
    view = "FileExplorer" /\ exMounted =>
        exFiltered =
            IF Trim(exSearch) = <<>>
            THEN exItems.entries
            ELSE SelectSeq(exItems.entries,
                           LAMBDA item : C23_NameContains(item, exSearch))

\* C24: in FileExplorerAdvanced one navigation to a folder issues exactly one
\* browseFolder call and one addToRecent update, and the effect that loads the
\* folder does not run again until the path changes: a step of the mounted
\* component that leaves the path as it is issues no call and updates no
\* recents.
C24_OneLoadPerNavigation ==
    [][advMounted /\ advPath' = advPath =>
           /\ advCalls' <= advCalls
           /\ storedRecent' = storedRecent]_vars

\* C25: in the IndexingPanel, once done has been observed for the panel's job,
\* the answer to a status call of that job that was still in flight changes
\* neither status nor progress.
C25_DoneIsFinal ==
    [][\A j \in JobIds :
           (/\ mounted
            /\ jobId = j
            /\ j \in doneSeen
            /\ status = StatusDone
            /\ statusCalls'[j] < statusCalls[j]) =>
               (status' = status /\ progress' = progress)]_vars

\* C26: in the IndexingPanel's initial state, with no job started, the Start
\* Indexing action is offered to the user.
C26_StartOffered ==
    (/\ view = "IndexingPanel"
     /\ mounted
     /\ jobId = NoJob
     /\ status = StatusNotStarted) => StartButtonRendered

\* Every entry of the cache is a response to a browse call for its own key.
C27_EntriesOfOwnPath ==
    \A p \in Paths : ContentsByPath[p] # Absent => ContentsByPath[p].path = p

\* A step changes the entry of a path only by storing a response of a call
\* for that path, and removes no entry.
C27_OnlyOwnEntry ==
    \A q \in Paths :
        ContentsByPath'[q] # ContentsByPath[q] =>
            /\ browseCalls'[q] < browseCalls[q]
            /\ ContentsByPath'[q] # Absent
            /\ ContentsByPath'[q].path = q

\* C27: in the folder browsers every cache entry contents[p] is the response
\* of a browse call made for p: under any interleaving of expand, select and
\* collapse actions on different paths and any order of arrival, a response
\* for p is stored under p only and neither removes nor changes the entry of
\* another path.
C27_CacheKeyedByPath ==
    /\ []C27_EntriesOfOwnPath
    /\ [][C27_OnlyOwnEntry]_vars

\* The response for one path was stored while a call for another path, which
\* has an entry already, is in flight.
C27_Witness ==
    /\ lastBrowse.kind = "ok"
    /\ \E q \in Paths :
           /\ q # lastBrowse.path
           /\ browseCalls[q] > 0
           /\ ContentsByPath[q] # Absent
           /\ ContentsByPath[lastBrowse.path] # Absent

\* The loadFolders runs that have not completed.
C28_LoadsOutstanding == \E st \in LoadStages : loadCalls[st] > 0

\* C28: in FolderList the loading flag is true exactly while a loadFolders run
\* is outstanding: it is false once every run has completed, and it is not
\* set to false while another run, such as the reload after a successful index
\* action that overlaps the initial load, is still outstanding.
C28_LoadingWhileLoading ==
    view = "FolderListIndexing" /\ effectRan =>
        (listLoading <=> C28_LoadsOutstanding)

\* Toggling a file twice gives back the selected set.
C29_ToggleTwice ==
    \A f \in Files :
        toggleFileSelectUpdated(toggleFileSelectUpdated(selectedFiles, f), f)
            = selectedFiles

\* What each step does to the selection: a toggle of f flips f and no other
\* file; Clear empties it; a request carries the selection as it is and leaves
\* it; the step after a success empties it; a failed or declined
\* indexSelectedFiles leaves it.
C29_SelectionSteps ==
    /\ \A f \in Files :
           toggleFileSelect(f) =>
               /\ (f \in selectedFiles') <=> (f \notin selectedFiles)
               /\ \A g \in Files \ {f} :
                      (g \in selectedFiles') <=> (g \in selectedFiles)
    /\ clearSelectedFiles => selectedFiles' = {}
    /\ \A ps \in PathSets :
           indexFilesCalls'[ps] > indexFilesCalls[ps] =>
               (ps = selectedFiles /\ ps # {} /\ selectedFiles' = selectedFiles)
    /\ lastAlert'.kind = "indexed" => selectedFiles' = {}
    /\ lastAlert'.kind = "index-files-failed" => selectedFiles' = selectedFiles
    /\ indexSelectedFiles(FALSE) =>
           (selectedFiles' = selectedFiles /\ indexFilesCalls' = indexFilesCalls)

\* C29: file selection in FolderList: toggleFileSelect(f) applied twice
\* restores the selected set and never changes the selection of another file;
\* Clear empties the selection; a successful indexSelectedFiles sends exactly
\* the paths selected and then empties the selection; a failed or declined one
\* leaves the selection unchanged.
C29_Selection ==
    /\ []C29_ToggleTwice
    /\ [][C29_SelectionSteps]_vars

\* A request for the selected files succeeded and the selection is empty.
C29_Witness ==
    /\ view = "FolderListIndexing"
    /\ lastAlert.kind = "indexed"
    /\ selectedFiles = {}
    /\ \A ps \in PathSets : indexFilesCalls[ps] = 0

\* A step in which the user declined the confirmation sends no request and
\* leaves both folder lists, the cache, the selection and the loading flag.
C30_DeclinedChangesNothing ==
    lastAlert'.confirm = "declined" =>
        UNCHANGED <<indexCalls, indexFilesCalls, loadCalls, browseCalls,
                    indexedFolders, availableFolders, contents, selectedFiles,
                    listLoading>>

\* After the initial load, a loadFolders run starts only in the step that
\* handles a successful indexing request.
C30_ReloadAfterSuccess ==
    effectRan /\ loadCalls'[LoadAtIndexed] > loadCalls[LoadAtIndexed] =>
        lastAlert'.kind \in {"indexing-started", "indexed"}

\* C30: in FolderList, when the user declines the confirmation dialog of
\* indexFolder or of indexSelectedFiles, no request is sent and the indexed
\* folders, the available folders, the cache, the selection and the loading
\* flag are unchanged; the folder lists are reloaded only after an indexing
\* call that succeeded.
C30_DeclineIsNoOp ==
    [][C30_DeclinedChangesNothing /\ C30_ReloadAfterSuccess]_vars

\* The confirmation was declined while files were selected and a load of the
\* folder lists was outstanding.
C30_Witness ==
    /\ view = "FolderListIndexing"
    /\ lastAlert.confirm = "declined"
    /\ selectedFiles # {}
    /\ listLoading

====
